---- MODULE Spec2Model ----
(***************************************************************************)
(* Model of aptos-vm's block-executor adapter, AptosExecutorTask           *)
(* (aptos-move/aptos-vm/src/block_executor/vm_wrapper.rs): construction    *)
(* with a best-effort warm-up, execute_transaction and convert_to_value.   *)
(* The collaborators the adapter calls (the VM, the delta materializer,    *)
(* the write-op converter) live outside this file; they are modelled from  *)
(* the specification and marked as such.                                   *)
(***************************************************************************)
EXTENDS Integers, Sequences, FiniteSets, TLC

\* ------------------------------------------------------------------ bounds
\* Transaction indices handed out by the engine are 0..MaxIdx.
MaxIdx == 1

TxnIndices == 0..MaxIdx

\* ------------------------------------------------------------------ values
\* Option<bytes> as a state view returns it: absent, bytes that decode to a
\* number, or bytes of another shape.
None == [tag |-> "None"]

Num(n) == [tag |-> "Num", n |-> n]

Blob == [tag |-> "Blob"]

Keys == {"K1", "K2"}

\* The views the engine may lend to one execution attempt (StateView).
StateViews ==
    {v \in [Keys -> {None, Num(0), Num(7), Blob}] : v["K1"] \in {None, Num(7)}}

\* The base/genesis views a task can be constructed from: whether the
\* framework (0x1::account) is published in it and whether the storage-slot
\* metadata feature is enabled in its on-chain configuration.
BaseViews ==
    [id : {"Miscellaneous"}, has_account_module : BOOLEAN,
     slot_metadata_feature : BOOLEAN]

AccountModule == "0x1::account"

\* PreprocessedTransaction, reduced to what decides the VM's answer.
\*   kind      "broken"    the VM reports an execution error for it
\*             "malformed" no sender can be identified (invalid signature)
\*             "user"      a well-formed user transaction that executes
\*             "failing"   a well-formed user transaction that is kept as failed
\*   delta     when executed, its output carries a deferred delta "+10 at K2"
\*   reconfig  its output carries the new-epoch (reconfiguration) event
Txns ==
    {t \in [kind : {"broken", "malformed", "user", "failing"},
            delta : BOOLEAN, reconfig : BOOLEAN] :
        /\ (t.kind = "broken") => (~t.delta /\ ~t.reconfig)
        /\ t.delta => (t.kind = "user")}

NoCall == [tag |-> "NoCall"]

VARIABLES
    pc,         \* "start" | "ready" | "init_failed" | "crashed"
    task,       \* AptosExecutorTask { vm, base_view }
    boot,       \* what init was given and how its warm-up load ended
    cur_view,   \* the view lent to the latest attempt, as it reads afterwards
    last,       \* the latest execute_transaction attempt and its outcome
    ref,        \* an earlier attempt kept for comparison with a re-execution
    conv,       \* the latest convert_to_value call and its result
    log_level   \* the process-wide logger's maximum level

vars == <<pc, task, boot, cur_view, last, ref, conv, log_level>>

\* ------------------------------------------------------------ construction
\* AptosVM::new(&config_storage): configuration is read from the base view;
\* the code cache starts empty.
AptosVM_new(argument) ==
    [cache |-> {}, storage_slot_metadata |-> argument.slot_metadata_feature]

\* vm.load_module(id, resolver): Ok and the module cached when the resolver
\* has it, Err and the cache untouched otherwise.
load_module(vm, id, resolver) ==
    IF resolver.has_account_module
    THEN [ok |-> TRUE, vm |-> [vm EXCEPT !.cache = @ \cup {id}]]
    ELSE [ok |-> FALSE, vm |-> vm]

\* A variant of init that propagates the warm-up error to its caller.
init_propagating(argument) ==
    LET vm0 == AptosVM_new(argument)
        loaded == load_module(vm0, AccountModule, argument)
    IN  [ok |-> loaded.ok, warm |-> loaded.ok,
         task |-> [vm |-> loaded.vm, base_view |-> argument]]

\* AptosExecutorTask::init: `let _ = vm.load_module(..)` drops the result.
init(argument) ==
    LET vm0 == AptosVM_new(argument)
        loaded == load_module(vm0, AccountModule, argument)
    IN  [ok |-> TRUE, warm |-> loaded.ok,
         task |-> [vm |-> loaded.vm, base_view |-> argument]]

\* ------------------------------------------------------- the VM (external)
NoSender == [tag |-> "None"]

SomeSender(a) == [tag |-> "Some", addr |-> a]

\* The keys the VM reads while executing txn: a well-formed transaction
\* reads its sender's account at K1; nothing is read for the others.
ReadSet(txn) == IF txn.kind \in {"user", "failing"} THEN {"K1"} ELSE {}

\* The deferred deltas and the reconfiguration event a transaction emits.
DeltasOf(txn) == IF txn.delta THEN {<<"K2", 10>>} ELSE {}

\* AptosVM::execute_single_transaction(txn, resolver(view), log_context):
\* Err(status) for a VM-level execution error, else Ok((vm_status,
\* vm_output, sender)).  A function of the transaction and of the values the
\* view holds at the keys read, never of the code cache.  A discarded
\* transaction leaves neither writes nor deferred deltas in its output.
execute_single_transaction(txn, view) ==
    IF txn.kind = "broken"
    THEN [tag |-> "Err", err |-> "UNKNOWN_INVARIANT_VIOLATION_ERROR"]
    ELSE IF txn.kind = "malformed"
    THEN [tag |-> "Ok", vm_status |-> "INVALID_SIGNATURE", sender |-> NoSender,
          output |-> [status |-> "Discard", writes |-> {},
                      deltas |-> {}, reconfig |-> txn.reconfig]]
    ELSE IF view["K1"].tag # "Num"
    THEN [tag |-> "Ok", vm_status |-> "SENDING_ACCOUNT_DOES_NOT_EXIST",
          sender |-> SomeSender("0xA11CE"),
          output |-> [status |-> "Discard", writes |-> {},
                      deltas |-> {}, reconfig |-> txn.reconfig]]
    ELSE [tag |-> "Ok",
          vm_status |-> IF txn.kind = "failing" THEN "ABORTED" ELSE "EXECUTED",
          sender |-> SomeSender("0xA11CE"),
          output |-> [status |-> "Keep",
                      writes |-> {<<"K1", view["K1"].n + 1>>},
                      deltas |-> DeltasOf(txn), reconfig |-> txn.reconfig]]

\* The VM's read-through code cache after running txn: a transaction that
\* reaches the prologue pulls 0x1::account in.
cache_after(cache, txn) ==
    IF txn.kind \in {"user", "failing"} THEN cache \cup {AccountModule} ELSE cache

\* TransactionStatus::is_discarded
is_discarded(status) == status = "Discard"

\* AptosVM::should_restart_execution(&vm_output): the output carries the
\* reconfiguration (new epoch) event.
should_restart_execution(vm_output) == vm_output.reconfig

\* ------------------------------------------------ delta materializer (ext.)
DeltaKeys(output) == {d[1] : d \in output.deltas}

\* VMOutput::try_materialize(view): every deferred delta is resolved by
\* reading its key through view and adding; a key that is absent or holds
\* bytes of another shape makes the whole call fail.
try_materialize(output, view) ==
    IF \E d \in output.deltas : view[d[1]].tag # "Num"
    THEN [ok |-> FALSE, output |-> output]
    ELSE [ok |-> TRUE,
          output |-> [output EXCEPT
              !.writes = {w \in @ : w[1] \notin DeltaKeys(output)}
                         \cup {<<d[1], view[d[1]].n + d[2]>> : d \in output.deltas},
              !.deltas = {}]]

\* ------------------------------------------------------ execute_transaction
Success(out) == [kind |-> "Success", output |-> out]

SkipRest(out) == [kind |-> "SkipRest", output |-> out]

Abort(err) == [kind |-> "Abort", err |-> err]

\* The attempt never returns: `.expect(..)` panicked.
Panic(msg) == [kind |-> "Panic", msg |-> msg]

\* AdapterLogSchema::new(self.base_view.id(), txn_idx as usize)
AdapterLogSchema_new(view_id, txn_idx) == [view_id |-> view_id, txn_idx |-> txn_idx]

\* The maximum levels the process-wide logger may be configured with.
LogLevels == {"Warn", "Info", "Trace"}

LevelRank == [l \in LogLevels |-> IF l = "Warn" THEN 0 ELSE IF l = "Info" THEN 1 ELSE 2]

\* aptos_logger::enabled!(level): the logger is configured to take entries
\* of that level.
enabled(level) == LevelRank[level] <= LevelRank[log_level]

\* speculative_trace!(ctx, msg): `if enabled!(Level::Trace) { .. }`
speculative_trace(entry) == IF enabled("Trace") THEN << entry >> ELSE << >>

\* speculative_info!(ctx, msg): `if enabled!(Level::Info) { .. }`
speculative_info(entry) == IF enabled("Info") THEN << entry >> ELSE << >>

\* Variant: deltas are materialized whatever the flag says.
materialize_always(vm_output, view, materialize_deltas) ==
    LET m == try_materialize(vm_output, view)
    IN  [ok |-> m.ok, output |-> m.output, calls |-> 1]

\* Variant: a failed materialization leaves the output as it was.
materialize_lenient(vm_output, view, materialize_deltas) ==
    IF materialize_deltas
    THEN LET m == try_materialize(vm_output, view)
         IN  [ok |-> TRUE, output |-> m.output, calls |-> 1]
    ELSE [ok |-> TRUE, output |-> vm_output, calls |-> 0]

\* `if materialize_deltas { vm_output = vm_output.try_materialize(view)
\*      .expect("Delta materialization failed"); }`
\* ok = FALSE is the panic of expect.
materialize_step(vm_output, view, materialize_deltas) ==
    IF materialize_deltas
    THEN LET m == try_materialize(vm_output, view)
         IN  [ok |-> m.ok, output |-> m.output, calls |-> 1]
    ELSE [ok |-> TRUE, output |-> vm_output, calls |-> 0]

\* Variant: the malformed branch logs nothing.
discard_trace_sender_only(log_context, vm_status, vm_output, sender) ==
    IF is_discarded(vm_output.status) /\ sender.tag = "Some"
    THEN speculative_trace([level |-> "Trace", ctx |-> log_context,
                            msg |-> "Transaction discarded", sender |-> sender,
                            error |-> vm_status])
    ELSE << >>

\* `if vm_output.status().is_discarded() { match sender { Some(s) =>
\*      speculative_trace!(..discarded..), None => speculative_trace!(
\*      ..malformed..) } }`
discard_trace(log_context, vm_status, vm_output, sender) ==
    IF is_discarded(vm_output.status)
    THEN IF sender.tag = "Some"
         THEN speculative_trace([level |-> "Trace", ctx |-> log_context,
                                 msg |-> "Transaction discarded",
                                 sender |-> sender, error |-> vm_status])
         ELSE speculative_trace([level |-> "Trace", ctx |-> log_context,
                                 msg |-> "Transaction malformed",
                                 sender |-> sender, error |-> vm_status])
    ELSE << >>

\* Variant: a reconfiguration is reported only for a kept transaction.
classify_kept_only(log_context, vm_output) ==
    IF should_restart_execution(vm_output) /\ ~is_discarded(vm_output.status)
    THEN [ret |-> SkipRest(vm_output),
          log |-> speculative_info([level |-> "Info", ctx |-> log_context,
                      msg |-> "Reconfiguration occurred: restart required"])]
    ELSE [ret |-> Success(vm_output), log |-> << >>]

\* `if AptosVM::should_restart_execution(&vm_output) { speculative_info!(..);
\*      ExecutionStatus::SkipRest(..) } else { ExecutionStatus::Success(..) }`
classify(log_context, vm_output) ==
    IF should_restart_execution(vm_output)
    THEN [ret |-> SkipRest(vm_output),
          log |-> speculative_info([level |-> "Info", ctx |-> log_context,
                      msg |-> "Reconfiguration occurred: restart required"])]
    ELSE [ret |-> Success(vm_output), log |-> << >>]

\* Variant: a VM error is reported with a generic status.
on_vm_error_generic(err) == Abort("UNKNOWN_STATUS")

\* `Err(err) => ExecutionStatus::Abort(err)`
on_vm_error(err) == Abort(err)

\* AptosExecutorTask::execute_transaction.  Besides the returned status
\* (ret) the record tells what the attempt did: the raw VM answer, the
\* entries handed to the speculative logger, how often the VM was run and
\* how often the materializer was called.
execute_transaction(self, view, txn, txn_idx, materialize_deltas) ==
    LET log_context == AdapterLogSchema_new(self.base_view.id, txn_idx)
        res == execute_single_transaction(txn, view)
    IN  IF res.tag = "Err"
        THEN [ret |-> on_vm_error(res.err), log |-> << >>, vm_result |-> res,
              vm_runs |-> 1, materialize_calls |-> 0]
        ELSE LET m == materialize_step(res.output, view, materialize_deltas)
             IN  IF ~m.ok
                 THEN [ret |-> Panic("Delta materialization failed"),
                       log |-> << >>, vm_result |-> res,
                       vm_runs |-> 1, materialize_calls |-> m.calls]
                 ELSE LET traced == discard_trace(log_context, res.vm_status,
                                                  m.output, res.sender)
                          c == classify(log_context, m.output)
                      IN  [ret |-> c.ret, log |-> traced \o c.log,
                           vm_result |-> res, vm_runs |-> 1,
                           materialize_calls |-> m.calls]

\* Variant: the attempt's writes are applied to the view it was lent.
view_after_applying(view, outcome) ==
    IF outcome.ret.kind \in {"Success", "SkipRest"}
    THEN [k \in Keys |->
            IF \E w \in outcome.ret.output.writes : w[1] = k
            THEN Num((CHOOSE w \in outcome.ret.output.writes : w[1] = k)[2])
            ELSE view[k]]
    ELSE view

\* `view: &impl StateView`: the view is only read through.
view_after(view, outcome) == view

\* `&self`: the task is borrowed shared; only the VM's code cache (interior
\* to the VM) can grow.
task_after(self, txn) ==
    [self EXCEPT !.vm.cache = cache_after(@, txn)]

\* --------------------------------------------------------- convert_to_value
NoBytes == [tag |-> "None"]

SomeBytes(b) == [tag |-> "Some", bytes |-> b]

\* Option<Bytes> arguments: no value, or one of two non-empty values.
MaybeBlobs == {NoBytes, SomeBytes("v1"), SomeBytes("v2")}

\* WriteOpConverter::new(&storage_adapter, is_storage_slot_metadata_enabled)
WriteOpConverter_new(remote, metadata_enabled) ==
    [remote |-> remote, metadata_enabled |-> metadata_enabled]

\* WriteOpConverter::convert(key, move_op, legacy_creation_as_modification):
\* the write operation of the class of move_op, with the metadata the
\* storage-slot policy asks for, or an error when the metadata-aware
\* conversion fails (fails is that event).
WriteOpConverter_convert(converter, key, move_op, legacy_creation_as_modification, fails) ==
    IF fails
    THEN [ok |-> FALSE, err |-> "STORAGE_ERROR"]
    ELSE IF move_op.tag = "New"
    THEN [ok |-> TRUE,
          op |-> [class |-> IF legacy_creation_as_modification
                            THEN "Modification" ELSE "Creation",
                  data |-> move_op.data,
                  metadata |-> converter.metadata_enabled]]
    ELSE IF move_op.tag = "Modify"
    THEN [ok |-> TRUE,
          op |-> [class |-> "Modification", data |-> move_op.data,
                  metadata |-> converter.metadata_enabled]]
    ELSE [ok |-> TRUE,
          op |-> [class |-> "Deletion", metadata |-> converter.metadata_enabled]]

\* Variant: a missing value is written as an empty one.
move_op_of_defaulting(maybe_blob, creation) ==
    LET blob == IF maybe_blob.tag = "Some" THEN maybe_blob.bytes ELSE ""
    IN  IF creation THEN [tag |-> "New", data |-> blob]
        ELSE [tag |-> "Modify", data |-> blob]

\* Variant: the class is taken from the presence of a value alone.
move_op_of_ignoring_flag(maybe_blob, creation) ==
    IF maybe_blob.tag = "Some"
    THEN [tag |-> "Modify", data |-> maybe_blob.bytes]
    ELSE [tag |-> "Delete"]

\* `match maybe_blob { Some(blob) => if creation { New(blob) } else
\*      { Modify(blob) }, None => Delete }`
move_op_of(maybe_blob, creation) ==
    IF maybe_blob.tag = "Some"
    THEN IF creation THEN [tag |-> "New", data |-> maybe_blob.bytes]
         ELSE [tag |-> "Modify", data |-> maybe_blob.bytes]
    ELSE [tag |-> "Delete"]

\* AptosExecutorTask::convert_to_value; map_err erases the cause.
convert_to_value(self, view, key, maybe_blob, creation, fails) ==
    LET wop_converter == WriteOpConverter_new(view, self.vm.storage_slot_metadata)
        move_op == move_op_of(maybe_blob, creation)
        r == WriteOpConverter_convert(wop_converter, key, move_op, FALSE, fails)
    IN  IF r.ok THEN [ok |-> TRUE, op |-> r.op]
        ELSE [ok |-> FALSE, err |-> "Error on converting to WriteOp"]

\* ------------------------------------------------------------------ actions
NoTask == [tag |-> "NoTask"]

NoView == [tag |-> "NoView"]

Init ==
    /\ pc = "start"
    /\ task = NoTask
    /\ boot = NoCall
    /\ cur_view = NoView
    /\ last = NoCall
    /\ ref = NoCall
    /\ conv = NoCall
    /\ log_level \in LogLevels

\* The engine constructs the worker's task from a base view.
InitTask ==
    /\ pc = "start"
    /\ \E argument \in BaseViews :
         LET r == init(argument)
         IN  /\ pc' = IF r.ok THEN "ready" ELSE "init_failed"
             /\ task' = IF r.ok THEN r.task ELSE NoTask
             /\ boot' = [argument |-> argument, warm |-> r.warm]
    /\ UNCHANGED <<cur_view, last, ref, conv, log_level>>

\* What one attempt leaves behind: the task (its code cache), the lent view,
\* and whether the process is still running.
Attempt(view, txn, txn_idx, materialize_deltas) ==
    [view |-> view, txn |-> txn, txn_idx |-> txn_idx,
     materialize_deltas |-> materialize_deltas,
     cache_before |-> task.vm.cache,
     outcome |-> execute_transaction(task, view, txn, txn_idx, materialize_deltas)]

Effects(a) ==
    /\ task' = task_after(task, a.txn)
    /\ cur_view' = view_after(a.view, a.outcome)
    /\ pc' = IF a.outcome.ret.kind = "Panic" THEN "crashed" ELSE "ready"

\* The engine runs a transaction at an index against a view.
Execute ==
    /\ pc = "ready"
    /\ \E view \in StateViews, txn \in Txns, txn_idx \in TxnIndices,
          materialize_deltas \in BOOLEAN :
         LET a == Attempt(view, txn, txn_idx, materialize_deltas)
         IN  /\ Effects(a)
             /\ last' = a
    /\ UNCHANGED <<boot, ref, conv, log_level>>

\* The engine asks for the write operation of one modified key.
Convert ==
    /\ pc = "ready"
    /\ \E view \in StateViews, key \in Keys, maybe_blob \in MaybeBlobs,
          creation \in BOOLEAN, fails \in BOOLEAN :
         conv' = [view |-> view, key |-> key, maybe_blob |-> maybe_blob,
                  creation |-> creation,
                  result |-> convert_to_value(task, view, key, maybe_blob,
                                              creation, fails)]
    /\ UNCHANGED <<pc, task, boot, cur_view, last, ref, log_level>>

\* The engine keeps the latest attempt to compare a re-execution with it.
Mark ==
    /\ pc = "ready"
    /\ ref = NoCall
    /\ last # NoCall
    /\ ref' = last
    /\ UNCHANGED <<pc, task, boot, cur_view, last, conv, log_level>>

\* The engine re-executes the kept transaction at its index with a fresh view.
ReExecute ==
    /\ pc = "ready"
    /\ ref # NoCall
    /\ \E view \in StateViews, materialize_deltas \in BOOLEAN :
         LET a == Attempt(view, ref.txn, ref.txn_idx, materialize_deltas)
         IN  /\ Effects(a)
             /\ last' = a
    /\ UNCHANGED <<boot, ref, conv, log_level>>

\* Between the two, the engine runs other attempts on the same task (for
\* this or other indices); their results are not kept, only what they leave
\* in the task.
Interleave ==
    /\ pc = "ready"
    /\ ref # NoCall
    /\ \E txn \in Txns, txn_idx \in TxnIndices :
         LET a == Attempt(ref.view, txn, txn_idx, FALSE)
         IN  /\ task' = task_after(task, a.txn)
             /\ pc' = IF a.outcome.ret.kind = "Panic" THEN "crashed" ELSE "ready"
    /\ UNCHANGED <<boot, cur_view, last, ref, conv, log_level>>

Next == InitTask \/ Execute

Spec == Init /\ [][Next]_vars

NextRerun == InitTask \/ (ref = NoCall /\ Execute) \/ Mark \/ ReExecute \/ Interleave

SpecRerun == Init /\ [][NextRerun]_vars

NextConvert == InitTask \/ Convert

SpecConvert == Init /\ [][NextConvert]_vars

\* ------------------------------------------------------------------- claims
Kind(a) == a.outcome.ret.kind

Raw(a) == a.outcome.vm_result

VmOk(a) == Raw(a).tag = "Ok"

TraceCount(log) == Cardinality({i \in DOMAIN log : log[i].level = "Trace"})

AgreeOn(v1, v2, ks) == \A k \in ks : v1[k] = v2[k]

Resolved(a) ==
    \A d \in Raw(a).output.deltas :
        /\ a.view[d[1]].tag = "Num"
        /\ <<d[1], a.view[d[1]].n + d[2]>> \in a.outcome.ret.output.writes

\* C1 as stated: an attempt whose VM output carries the reconfiguration
\* flag returns SkipRest, for every transaction, view, index and value of
\* materialize_deltas.
C1_ReconfigurationAlwaysSkipRest ==
    (last # NoCall /\ VmOk(last) /\ should_restart_execution(Raw(last).output))
    => (Kind(last) = "SkipRest")

\* C1 amended: an attempt whose VM output carries the reconfiguration flag
\* never returns Success or Abort, whether the transaction was executed, kept
\* as failed or discarded: it returns SkipRest with that flag, except that it
\* returns nothing when materialize_deltas is set and a deferred delta of
\* the output cannot be resolved (the fatal failure of the materializer).
C1_ReconfigurationSkipsRest ==
    (last # NoCall /\ VmOk(last) /\ should_restart_execution(Raw(last).output))
    => IF /\ last.materialize_deltas
          /\ \E d \in Raw(last).output.deltas : last.view[d[1]].tag # "Num"
       THEN Kind(last) = "Panic"
       ELSE /\ Kind(last) = "SkipRest"
            /\ should_restart_execution(last.outcome.ret.output)

C1_Witness ==
    /\ last # NoCall
    /\ last.txn.kind = "failing"
    /\ VmOk(last)
    /\ Raw(last).vm_status = "ABORTED"
    /\ Kind(last) = "SkipRest"

\* C2 as stated: an attempt on a transaction with a malformed sender (the
\* output is discarded and no sender is identified) never returns Abort, it
\* returns Success or SkipRest with the discarded output, and exactly one
\* trace is emitted during the attempt.
C2_MalformedOneTrace ==
    (last # NoCall /\ VmOk(last) /\ is_discarded(Raw(last).output.status)
        /\ Raw(last).sender.tag = "None")
    => (/\ Kind(last) \in {"Success", "SkipRest"}
        /\ is_discarded(last.outcome.ret.output.status)
        /\ TraceCount(last.outcome.log) = 1)

\* C2 amended: such an attempt never returns Abort and returns Success or
\* SkipRest with the discarded output; it emits exactly one trace, the
\* "Transaction malformed" one, when the logger takes trace-level entries,
\* and no trace when it does not.
C2_MalformedNeverAborts ==
    (last # NoCall /\ VmOk(last) /\ is_discarded(Raw(last).output.status)
        /\ Raw(last).sender.tag = "None")
    => (/\ Kind(last) # "Abort"
        /\ Kind(last) \in {"Success", "SkipRest"}
        /\ is_discarded(last.outcome.ret.output.status)
        /\ TraceCount(last.outcome.log) = IF enabled("Trace") THEN 1 ELSE 0
        /\ enabled("Trace") =>
              \E i \in DOMAIN last.outcome.log :
                 /\ last.outcome.log[i].level = "Trace"
                 /\ last.outcome.log[i].msg = "Transaction malformed"
                 /\ last.outcome.log[i].ctx.txn_idx = last.txn_idx)

C2_Witness ==
    /\ last # NoCall
    /\ last.txn.kind = "malformed"
    /\ last.materialize_deltas
    /\ log_level = "Trace"
    /\ Kind(last) = "SkipRest"
    /\ Len(last.outcome.log) = 2
    /\ TraceCount(last.outcome.log) = 1

\* C3: an attempt that returns yields one of Success, SkipRest, Abort; it is
\* Abort exactly when the VM reported an execution error, and then it carries
\* that very status and nothing else, the materializer was not called and the
\* VM was run once.
C3_AbortIffVmError ==
    (last # NoCall) =>
       (/\ Kind(last) \in {"Success", "SkipRest", "Abort", "Panic"}
        /\ (Kind(last) = "Abort") <=> (Raw(last).tag = "Err")
        /\ (Kind(last) \in {"Success", "SkipRest"}) =>
              (DOMAIN last.outcome.ret = {"kind", "output"})
        /\ (Kind(last) = "Abort") =>
              (/\ last.outcome.ret = [kind |-> "Abort", err |-> Raw(last).err]
               /\ last.outcome.materialize_calls = 0
               /\ last.outcome.log = << >>)
        /\ last.outcome.vm_runs = 1)

C3_Witness ==
    /\ last # NoCall
    /\ last.txn.kind = "broken"
    /\ last.materialize_deltas
    /\ Kind(last) = "Abort"

\* C4 as stated: two attempts on one task for the same transaction at the
\* same index, against views that agree on every key the transaction reads,
\* return identical statuses.
C4_SameReadsSameStatus ==
    (/\ ref # NoCall
     /\ last # NoCall
     /\ last.txn = ref.txn
     /\ last.txn_idx = ref.txn_idx
     /\ AgreeOn(ref.view, last.view, ReadSet(ref.txn))
     /\ Kind(ref) # "Panic"
     /\ Kind(last) # "Panic")
    => (last.outcome.ret = ref.outcome.ret)

\* C4 amended: two attempts on one task for the same transaction at the same
\* index with the same materialize_deltas, against views that agree on every
\* key the transaction reads and, when deltas are materialized, on every key
\* a deferred delta of its output targets, have the same outcome, whatever
\* ran on the task in between.
C4_Determinism ==
    (/\ ref # NoCall
     /\ last # NoCall
     /\ last.txn = ref.txn
     /\ last.txn_idx = ref.txn_idx
     /\ last.materialize_deltas = ref.materialize_deltas
     /\ AgreeOn(ref.view, last.view, ReadSet(ref.txn))
     /\ (ref.materialize_deltas /\ VmOk(ref)) =>
            AgreeOn(ref.view, last.view, DeltaKeys(Raw(ref).output)))
    => (last.outcome.ret = ref.outcome.ret)

C4_Witness ==
    /\ ref # NoCall
    /\ last # NoCall
    /\ last.view # ref.view
    /\ last.cache_before # ref.cache_before
    /\ ref.txn.kind = "user"
    /\ ref.txn.delta
    /\ ~ref.materialize_deltas
    /\ ~last.materialize_deltas
    /\ ref.view["K2"] = Num(0)
    /\ last.view["K2"] = Num(7)
    /\ Kind(ref) = "Success"
    /\ last.outcome.ret = ref.outcome.ret

\* C5: after any sequence of attempts the view lent to the latest one reads
\* as it was lent, the base view is the one init was given and the VM's
\* configuration is the one read at construction; only the code cache grows.
C5_NoSharedStateTouched ==
    (last # NoCall) =>
       (/\ cur_view = last.view
        /\ task.base_view = boot.argument
        /\ task.vm.storage_slot_metadata = boot.argument.slot_metadata_feature
        /\ DOMAIN task = {"vm", "base_view"}
        /\ DOMAIN task.vm = {"cache", "storage_slot_metadata"}
        /\ last.cache_before \subseteq task.vm.cache)

C5_Witness ==
    /\ last # NoCall
    /\ Kind(last) = "Success"
    /\ <<"K1", 8>> \in last.outcome.ret.output.writes
    /\ cur_view["K1"] = Num(7)
    /\ last.cache_before = {}
    /\ task.vm.cache = {AccountModule}

\* C6: with materialize_deltas = FALSE the returned output is the raw VM
\* output, every deferred delta still unresolved and the materializer not
\* called; with materialize_deltas = TRUE the returned output has no deferred
\* delta left and each one was resolved against the view of this attempt.
C6_MaterializedOnlyOnRequest ==
    (last # NoCall /\ Kind(last) \in {"Success", "SkipRest"}) =>
       IF last.materialize_deltas
       THEN /\ last.outcome.ret.output.deltas = {}
            /\ Resolved(last)
            /\ last.outcome.materialize_calls = 1
       ELSE /\ last.outcome.ret.output = Raw(last).output
            /\ last.outcome.materialize_calls = 0

C6_Witness ==
    /\ last # NoCall
    /\ last.materialize_deltas
    /\ Kind(last) = "Success"
    /\ Raw(last).output.deltas # {}
    /\ last.outcome.ret.output.deltas = {}

\* C7: with materialize_deltas = TRUE each deferred delta is applied to the
\* value its key has in the view (+10 on 7 gives 17); when a key cannot be
\* resolved the attempt returns nothing, neither Abort nor Success nor
\* SkipRest, and the process stops.
C7_MaterializationFailureIsFatal ==
    (last # NoCall /\ last.materialize_deltas /\ VmOk(last)) =>
       IF \E d \in Raw(last).output.deltas : last.view[d[1]].tag # "Num"
       THEN /\ Kind(last) = "Panic"
            /\ pc = "crashed"
       ELSE /\ Kind(last) \in {"Success", "SkipRest"}
            /\ Resolved(last)
            /\ (Raw(last).output.deltas # {} /\ last.view["K2"] = Num(7)) =>
                  (<<"K2", 17>> \in last.outcome.ret.output.writes)

C7_Witness ==
    /\ ref # NoCall
    /\ ref.materialize_deltas
    /\ ref.view["K2"] = Num(7)
    /\ Kind(ref) = "Success"
    /\ <<"K2", 17>> \in ref.outcome.ret.output.writes
    /\ last.materialize_deltas
    /\ last.view["K2"] = None
    /\ Kind(last) = "Panic"
    /\ pc = "crashed"

\* C8 as stated: convert_to_value with no value yields a Deletion, for every
\* key and both values of the creation flag.
C8_NoneIsDeletion ==
    (conv # NoCall /\ conv.maybe_blob = NoBytes) =>
       (conv.result.ok /\ conv.result.op.class = "Deletion")

\* C8 amended: convert_to_value with no value yields, for every key and both
\* values of the creation flag, either a Deletion or the generic conversion
\* error; never a Creation or a Modification.
C8_NoneIsDeletionOrError ==
    (conv # NoCall /\ conv.maybe_blob = NoBytes) =>
       IF conv.result.ok
       THEN conv.result.op.class = "Deletion"
       ELSE conv.result.err = "Error on converting to WriteOp"

C8_Witness ==
    /\ conv # NoCall
    /\ conv.maybe_blob = NoBytes
    /\ conv.creation
    /\ conv.result.ok
    /\ conv.result.op.class = "Deletion"

\* C9 as stated: convert_to_value with a value yields a Creation when the
\* creation flag is set and a Modification when it is not.
C9_ClassFollowsFlag ==
    (conv # NoCall /\ conv.maybe_blob # NoBytes) =>
       (/\ conv.result.ok
        /\ conv.result.op.class = IF conv.creation THEN "Creation" ELSE "Modification")

\* C9 amended: convert_to_value with a value yields either the generic
\* conversion error or a write operation carrying that value whose class is
\* Creation when the creation flag is set and Modification when it is not,
\* whether or not the key has a value in the view.
C9_ClassFollowsFlagOrError ==
    (conv # NoCall /\ conv.maybe_blob # NoBytes) =>
       IF conv.result.ok
       THEN /\ conv.result.op.class =
                  IF conv.creation THEN "Creation" ELSE "Modification"
            /\ conv.result.op.data = conv.maybe_blob.bytes
       ELSE conv.result.err = "Error on converting to WriteOp"

C9_Witness ==
    /\ conv # NoCall
    /\ conv.maybe_blob = SomeBytes("v1")
    /\ conv.creation
    /\ conv.view[conv.key] = None
    /\ conv.result.ok
    /\ conv.result.op.class = "Creation"

\* C10: init always yields a task, also when the warm-up load of
\* 0x1::account failed; the task's base view and configuration are those of
\* the argument, and only the code cache tells the two cases apart.
C10_WarmUpFailureSwallowed ==
    (boot # NoCall) =>
       (/\ pc # "init_failed"
        /\ task # NoTask
        /\ task.base_view = boot.argument
        /\ task.vm.storage_slot_metadata = boot.argument.slot_metadata_feature
        /\ (last = NoCall) =>
              (task.vm.cache = IF boot.warm THEN {AccountModule} ELSE {}))

C10_Witness ==
    /\ boot # NoCall
    /\ ~boot.warm
    /\ pc = "ready"
    /\ last = NoCall
    /\ task.vm.cache = {}
    /\ task.base_view = boot.argument

====
